---------------------------- MODULE Spec2Model ----------------------------
(***************************************************************************)
(* nom-derive, src/enums.rs: the derive macro for enums.                   *)
(*                                                                         *)
(* impl_nom_enums turns an enum declaration (its attributes, its variants  *)
(* and the macro's Config) into the tokens of a `parse` routine, or        *)
(* panics.  The model has two layers:                                      *)
(*   - the macro, a pure function of the declaration (operators named as   *)
(*     in the source), applied by the action Derive;                       *)
(*   - the generated routine, executed statement by statement on an input  *)
(*     (and, in selector mode, a selector argument) by the Exec* actions.  *)
(***************************************************************************)
EXTENDS Integers, Sequences, FiniteSets, TLC

VARIABLES
    ast,        \* the syn::DeriveInput: [attrs, meta, variants]
    config,     \* the Config: [big_endian]
    pc,         \* "decl" | "derived" | "panicked" | "running" | "returned"
    tokens,     \* what impl_nom_enums returned (or the panic)
    orig_i,     \* the routine's argument orig_<input_name>
    i,          \* the routine's variable <input_name>
    selector,   \* the routine's selector (argument, or the integer read)
    ip,         \* index of the next statement of the routine's body
    arm,        \* index of the match arm entered (0: none)
    fld,        \* index of the next field parser of the arm entered
    idents,     \* values bound by the field parsers run so far
    result,     \* what the routine returned
    trace       \* the statements executed so far, in order

vars == <<ast, config, pc, tokens, orig_i, i, selector, ip, arm, fld, idents,
          result, trace>>

(***************************************************************************)
(* Bounds of the model.                                                    *)
(***************************************************************************)
MaxVariants == 3     \* variants of an enum
MaxFields == 2       \* fields of a variant
MaxInput == 3        \* bytes of an input

(***************************************************************************)
(* Small helpers.                                                          *)
(***************************************************************************)
None == [tag |-> "None", v |-> ""]
Some(s) == [tag |-> "Some", v |-> s]
Panic(msg) == [tag |-> "Panic", v |-> msg]

SeqsUpTo(S, n) == UNION {[1..k -> S] : k \in 0..n}

\* Vec::swap(a, b)
Swap(s, a, b) == [k \in 1..Len(s) |-> IF k = a THEN s[b] ELSE IF k = b THEN s[a] ELSE s[k]]

RECURSIVE Pow2(_)
Pow2(n) == IF n = 0 THEN 1 ELSE 2 * Pow2(n - 1)

(***************************************************************************)
(* MetaAttr lists (the parsed `nom` attributes).                           *)
(***************************************************************************)
MetaAttr(t, a) == [attr_type |-> t, arg |-> a]

\* meta_list.iter().any(|m| m.is_type(t))
AnyIsType(meta_list, t) == \E k \in 1..Len(meta_list) : meta_list[k].attr_type = t

\* get_selector: the argument of the first Selector entry
RECURSIVE get_selector_from(_, _)
get_selector_from(meta_list, k) ==
    IF k > Len(meta_list) THEN None
    ELSE IF meta_list[k].attr_type = "Selector" THEN Some(meta_list[k].arg)
    ELSE get_selector_from(meta_list, k + 1)

get_selector(meta_list) == get_selector_from(meta_list, 1)

(***************************************************************************)
(* get_repr: the attributes are scanned in order; the first `repr(...)`    *)
(* list with a nested item decides: a plain word is returned, anything     *)
(* else panics.  A repr list with no nested item is passed over.           *)
(*   attribute:   [path, kind ("List" | "NameValue" | "Path"), nested]     *)
(*   nested item: [kind ("Path" | "PathNoIdent" | "List" | "NameValue" |   *)
(*                       "Lit"), word]                                     *)
(***************************************************************************)
get_repr_nested(n) ==
    IF n.kind = "Path" THEN Some(n.word)
    ELSE IF n.kind \in {"PathNoIdent", "List", "NameValue"}
         THEN Panic("unsupported nested type for 'repr'")
    ELSE Panic("unsupported meta type for 'repr'")

RECURSIVE get_repr_from(_, _)
get_repr_from(attrs, k) ==
    IF k > Len(attrs) THEN None
    ELSE IF attrs[k].kind = "List" /\ attrs[k].path = "repr" /\ Len(attrs[k].nested) > 0
         THEN get_repr_nested(attrs[k].nested[1])
    ELSE get_repr_from(attrs, k + 1)

get_repr(attrs) == get_repr_from(attrs, 1)

\* a fold that starts from, or combines to, the wrong value: one unit variant
\* is enough
is_input_fieldless_enum_any(a) ==
    \E k \in 1..Len(a.variants) : a.variants[k].fields_kind = "Unit"

\* is_input_fieldless_enum: every variant is syn::Fields::Unit
is_input_fieldless_enum(a) ==
    \A k \in 1..Len(a.variants) : a.variants[k].fields_kind = "Unit"

(***************************************************************************)
(* The nom number parsers nom::number::streaming::{be,le}_{u,i}{8..64}     *)
(* that the generated code calls: W bytes are taken from the input, or the *)
(* parser fails with Incomplete.  A parser is [endian, repr].              *)
(***************************************************************************)
IntReprs == {"u8", "u16", "u24", "u32", "u64", "i8", "i16", "i24", "i32", "i64"}

ReprWidth(repr) ==
    CASE repr \in {"u8", "i8"} -> 1
      [] repr \in {"u16", "i16"} -> 2
      [] repr \in {"u24", "i24"} -> 3
      [] repr \in {"u32", "i32"} -> 4
      [] repr \in {"u64", "i64"} -> 8

ReprSigned(repr) == repr \in {"i8", "i16", "i24", "i32", "i64"}

RECURSIVE BeValue(_)
BeValue(bytes) ==
    IF bytes = <<>> THEN 0
    ELSE 256 * BeValue(SubSeq(bytes, 1, Len(bytes) - 1)) + bytes[Len(bytes)]

RECURSIVE LeValue(_)
LeValue(bytes) ==
    IF bytes = <<>> THEN 0 ELSE bytes[1] + 256 * LeValue(Tail(bytes))

ToSigned(v, w) == IF v >= Pow2(8 * w - 1) THEN v - Pow2(8 * w) ELSE v

\* `x as <repr>` on an integer: wraps to the width of the type
CastTo(v, repr) ==
    LET w == ReprWidth(repr)
        m == v % Pow2(8 * w)
    IN  IF ReprSigned(repr) THEN ToSigned(m, w) ELSE m

NumberParser(endian, repr) == [endian |-> endian, repr |-> repr]

\* parser(input): Ok((rest, value)), or Err(Incomplete(Needed)), which holds no
\* input
RunParser(parser, input) ==
    LET w == ReprWidth(parser.repr)
        bytes == SubSeq(input, 1, w)
        raw == IF parser.endian = "be" THEN BeValue(bytes) ELSE LeValue(bytes)
    IN  IF Len(input) < w
        THEN [ok |-> FALSE, rest |-> <<>>, value |-> 0, err |-> "Incomplete"]
        ELSE [ok |-> TRUE, rest |-> SubSeq(input, w + 1, Len(input)),
              value |-> IF ReprSigned(parser.repr) THEN ToSigned(raw, w) ELSE raw,
              err |-> ""]

(***************************************************************************)
(* crate::structs, used by the enum macro.                                 *)
(***************************************************************************)
Stmt(op, a, b) == [op |-> op, a |-> a, b |-> b]

\* get_pre_post_exec: the top-level PreExec and PostExec expressions, each
\* present or absent
HookTokens(meta_list, t) ==
    IF AnyIsType(meta_list, t) THEN <<Stmt("exec", t, "")>> ELSE <<>>

get_pre_post_exec(meta_list, cfg) ==
    [pre |-> HookTokens(meta_list, "PreExec"), post |-> HookTokens(meta_list, "PostExec")]

\* parse_fields: one parser per field, in declaration order; an integer field
\* gets the number parser of its type in the configured byte order
parse_fields(fields, fields_kind, cfg) ==
    [parsers |-> [k \in 1..Len(fields) |->
                    [name |-> fields[k].name,
                     parser |-> NumberParser(IF cfg.big_endian THEN "be" ELSE "le",
                                             fields[k].ty)]],
     unnamed |-> (fields_kind = "Unnamed")]

(***************************************************************************)
(* parse_variant                                                           *)
(***************************************************************************)
parse_variant(variant, cfg) ==
    LET sel == get_selector(variant.meta)
    IN  IF sel.tag = "None"
        THEN Panic("The 'Selector' attribute must be used to give the value of selector item")
        ELSE [tag |-> "Variant", ident |-> variant.ident, selector |-> sel.v,
              struct_def |-> parse_fields(variant.fields, variant.fields_kind, cfg)]

(***************************************************************************)
(* What the macro returns: the tokens of the routine, or a panic.          *)
(*   body: the routine's statements, in order                              *)
(*   arms: the arms of the routine's `match selector` (selector mode)      *)
(***************************************************************************)
Tokens(mode, body, arms) ==
    [tag |-> "Tokens", msg |-> "", mode |-> mode, body |-> body, arms |-> arms]

Aborted(msg) ==
    [tag |-> "Panic", msg |-> msg, mode |-> "", body |-> <<>>, arms |-> <<>>]

(***************************************************************************)
(* impl_nom_fieldless_enums                                                *)
(***************************************************************************)
\* the LittleEndian annotation is not looked at
is_big_endian_no_little(meta_list, cfg) ==
    IF AnyIsType(meta_list, "BigEndian") THEN TRUE ELSE cfg.big_endian

\* lines 107-113
is_big_endian(meta_list, cfg) ==
    IF AnyIsType(meta_list, "BigEndian") THEN TRUE
    ELSE IF AnyIsType(meta_list, "LittleEndian") THEN FALSE
    ELSE cfg.big_endian

\* lines 96-121
fieldless_parser(repr, meta_list, cfg) ==
    IF repr \in IntReprs
    THEN Some(NumberParser(IF is_big_endian(meta_list, cfg) THEN "be" ELSE "le", repr))
    ELSE Panic("Cannot parse 'repr' content")

\* lines 122-143: one `if selector == Name::Id as ty { return Ok((i, Name::Id)); }`
\* per variant, in declaration order
fieldless_variants_code(a, repr) ==
    [k \in 1..Len(a.variants) |-> Stmt("if_eq", a.variants[k].ident, repr)]

\* lines 144-154
fieldless_tokens(tl_pre, parser, variants_code) ==
    Tokens("fieldless",
           <<Stmt("let_input", "", "")>> \o tl_pre
             \o <<Stmt("read_selector", parser.endian, parser.repr)>>
             \o variants_code
             \o <<Stmt("err_switch", "", "")>>,
           <<>>)

impl_nom_fieldless_enums(a, repr, meta_list, cfg) ==
    LET tl == get_pre_post_exec(meta_list, cfg)
        parser == fieldless_parser(repr, meta_list, cfg)
    IN  IF parser.tag = "Panic" THEN Aborted(parser.v)
        ELSE fieldless_tokens(tl.pre, parser.v, fieldless_variants_code(a, repr))


(***************************************************************************)
(* impl_nom_enums, selector mode                                           *)
(***************************************************************************)
\* lines 180-189
selector_variants_defs(a, cfg) ==
    [k \in 1..Len(a.variants) |-> parse_variant(a.variants[k], cfg)]

\* lines 194, 198: set while the arms are built
default_case_handled(variants_defs) ==
    \E k \in 1..Len(variants_defs) : variants_defs[k].selector = "_"

\* lines 199-219: the arm of one variant
\*   m => { (let (i, id) = parser(i)?;)*  let struct_def = ...; Ok((i, struct_def)) }
VariantArm(def) ==
    [m |-> def.selector, kind |-> "variant", variantname |-> def.ident,
     parsers |-> def.struct_def.parsers, unnamed |-> def.struct_def.unnamed]

\* lines 195-222
selector_variants_code(variants_defs) ==
    [k \in 1..Len(variants_defs) |-> VariantArm(variants_defs[k])]

\* position(|def| def.selector == "_")
default_position(variants_defs) ==
    CHOOSE p \in 1..Len(variants_defs) :
        /\ variants_defs[p].selector = "_"
        /\ \A q \in 1..(p - 1) : variants_defs[q].selector # "_"

\* the reordering pass left out
move_default_last_never(variants_defs, variants_code, handled) ==
    [defs |-> variants_defs, code |-> variants_code]

\* lines 224-233: "if we have a default case, make sure it is the last entry"
move_default_last(variants_defs, variants_code, handled) ==
    IF handled
    THEN LET pos == default_position(variants_defs)
             last_index == Len(variants_defs)
         IN  IF pos # last_index
             THEN [defs |-> Swap(variants_defs, pos, last_index),
                   code |-> Swap(variants_code, pos, last_index)]
             ELSE [defs |-> variants_defs, code |-> variants_code]
    ELSE [defs |-> variants_defs, code |-> variants_code]

\* lines 235-237:  _ => Err(Error(error_position!(i, Switch)))
SwitchArm ==
    [m |-> "_", kind |-> "switch", variantname |-> "", parsers |-> <<>>, unnamed |-> FALSE]

\* the fallback arm emitted whether or not a default case was seen
default_case_always(handled) == <<SwitchArm>>

default_case(handled) == IF handled THEN <<>> ELSE <<SwitchArm>>

\* the pre-hook emitted before the input variable is bound
selector_tokens_hook_first(tl_pre, variants_code, dflt) ==
    Tokens("selector",
           tl_pre \o <<Stmt("let_input", "", "")>> \o <<Stmt("match", "selector", "")>>,
           variants_code \o dflt)

\* lines 238-250
selector_tokens(tl_pre, variants_code, dflt) ==
    Tokens("selector",
           <<Stmt("let_input", "", "")>> \o tl_pre \o <<Stmt("match", "selector", "")>>,
           variants_code \o dflt)

impl_nom_selector_enums(a, meta_list, cfg) ==
    LET variants_defs == selector_variants_defs(a, cfg)
        tl == get_pre_post_exec(meta_list, cfg)
    IN  IF \E k \in 1..Len(variants_defs) : variants_defs[k].tag = "Panic"
        THEN Aborted("The 'Selector' attribute must be used to give the value of selector item")
        ELSE LET handled == default_case_handled(variants_defs)
                 moved == move_default_last(variants_defs,
                                            selector_variants_code(variants_defs), handled)
             IN  selector_tokens(tl.pre, moved.code, default_case(handled))

(***************************************************************************)
(* impl_nom_enums: the driver                                              *)
(***************************************************************************)
\* lines 171-177
impl_nom_no_selector(a, meta_list, cfg) ==
    IF is_input_fieldless_enum(a)
    THEN LET repr == get_repr(a.attrs)
         IN  IF repr.tag = "None"
             THEN Aborted("Nom-derive: fieldless enums must have a 'repr' attribute")
             ELSE IF repr.tag = "Panic" THEN Aborted(repr.v)
             ELSE impl_nom_fieldless_enums(a, repr.v, meta_list, cfg)
    ELSE Aborted("Nom-derive: enums must specify the 'selector' attribute")

impl_nom_enums(a, cfg) ==
    LET meta_list == a.meta
    IN  IF get_selector(meta_list).tag = "None"
        THEN impl_nom_no_selector(a, meta_list, cfg)
        ELSE impl_nom_selector_enums(a, meta_list, cfg)


(***************************************************************************)
(* The declarations and calls the model explores.                          *)
(*   variant: [ident, meta, fields_kind, fields, discriminant]             *)
(*   field:   [name, ty]                                                   *)
(*   case:    [ast, config, orig_i, selector]                              *)
(***************************************************************************)
VariantIdents == <<"A", "B", "C", "D", "E", "F">>
FieldNames == <<"f1", "f2", "f3", "f4", "f5">>
Bytes == {7, 255}
Inputs == SeqsUpTo(Bytes, MaxInput)
Patterns == {"_", "1", "2", "1..=2"}
SelectorValues == {1, 2, 9}

\* whether pattern m of a `match` arm matches the value v
Matches(m, v) ==
    CASE m = "_" -> TRUE
      [] m = "1" -> v = 1
      [] m = "2" -> v = 2
      [] m = "1..=2" -> v \in 1..2

Fields(tys) == [k \in 1..Len(tys) |-> [name |-> FieldNames[k], ty |-> tys[k]]]

Variant(k, meta, fields_kind, tys, d) ==
    [ident |-> VariantIdents[k], meta |-> meta, fields_kind |-> fields_kind,
     fields |-> Fields(tys), discriminant |-> d]

Case(attrs, meta, variants, big_endian, input, sel) ==
    [ast |-> [attrs |-> attrs, meta |-> meta, variants |-> variants],
     config |-> [big_endian |-> big_endian], orig_i |-> input, selector |-> sel]

\* the routine's result, before it returns
NoResult ==
    [tag |-> "None", kind |-> "", rest |-> <<>>, variant |-> "", fields |-> <<>>,
     unnamed |-> FALSE]

\* Ok((rest, Name::variant { fields }))
Ok(rest, variant, fields, unnamed) ==
    [tag |-> "Ok", kind |-> "", rest |-> rest, variant |-> variant, fields |-> fields,
     unnamed |-> unnamed]

\* Err(nom::Err::Error((rest, kind))), or the Err(Incomplete) of a number parser
Err(rest, kind) ==
    [tag |-> "Err", kind |-> kind, rest |-> rest, variant |-> "", fields |-> <<>>,
     unnamed |-> FALSE]

\* a declaration and a call, before the macro runs
InitCase(c) ==
    /\ ast = c.ast
    /\ config = c.config
    /\ orig_i = c.orig_i
    /\ selector = c.selector
    /\ pc = "decl"
    /\ tokens = Aborted("")
    /\ i = <<>>
    /\ ip = 0
    /\ arm = 0
    /\ fld = 0
    /\ idents = <<>>
    /\ result = NoResult
    /\ trace = <<>>

\* the sub-sequences of s, in the order of s
RECURSIVE SubLists(_)
SubLists(s) ==
    IF s = <<>> THEN {<<>>}
    ELSE LET rest == SubLists(Tail(s))
         IN  rest \cup {<<Head(s)>> \o r : r \in rest}

HookLists == SubLists(<<MetaAttr("PreExec", "hook()"), MetaAttr("PostExec", "hook()")>>)
EndianLists ==
    SubLists(<<MetaAttr("BigEndian", ""), MetaAttr("LittleEndian", "")>>)
      \cup {<<MetaAttr("LittleEndian", ""), MetaAttr("BigEndian", "")>>}
SelectorAttr == MetaAttr("Selector", "u8")

\* Selector mode, the arms: every list of patterns, on variants without
\* fields or with one u8 field.
ArmShapes == {[kind |-> "Unit", tys |-> <<>>], [kind |-> "Unnamed", tys |-> <<"u8">>]}

ArmVariantLists ==
    UNION {{[k \in 1..n |-> Variant(k, <<MetaAttr("Selector", ps[k])>>,
                                    sh[k].kind, sh[k].tys, k - 1)] :
              ps \in [1..n -> Patterns], sh \in [1..n -> ArmShapes]} :
           n \in 1..MaxVariants}

ArmInit ==
    \E vs \in ArmVariantLists, input \in {<<>>, <<7>>}, sel \in SelectorValues :
        InitCase(Case(<<>>, <<SelectorAttr>>, vs, TRUE, input, sel))

\* Selector mode, the fields: one variant with every list of fields, alone or
\* followed by a default variant.
FieldKinds(tys) == IF tys = <<>> THEN {"Unit", "Named", "Unnamed"} ELSE {"Named", "Unnamed"}

FieldVariantLists ==
    UNION {UNION {{<<Variant(1, <<MetaAttr("Selector", "1")>>, fk, tys, 0)>>,
                   <<Variant(1, <<MetaAttr("Selector", "1")>>, fk, tys, 0),
                     Variant(2, <<MetaAttr("Selector", "_")>>, "Unit", <<>>, 1)>>} :
                  fk \in FieldKinds(tys)} :
           tys \in SeqsUpTo({"u8", "u16"}, MaxFields)}

FieldInit ==
    \E hooks \in HookLists, vs \in FieldVariantLists, be \in BOOLEAN,
       input \in Inputs, sel \in {1, 9} :
        InitCase(Case(<<>>, <<SelectorAttr>> \o hooks, vs, be, input, sel))


\* Attributes of the enum, as get_repr sees them.
Word(w) == [kind |-> "Path", word |-> w]
Attr(path, kind, nested) == [path |-> path, kind |-> kind, nested |-> nested]
Repr(nested) == Attr("repr", "List", nested)

NestedItems ==
    {Word(w) : w \in IntReprs \cup {"C", "usize"}}
      \cup {[kind |-> "PathNoIdent", word |-> "a::b"], [kind |-> "List", word |-> "align"],
            [kind |-> "NameValue", word |-> "packed"], [kind |-> "Lit", word |-> "u8"]}

NestedLists ==
    {<<>>} \cup {<<n>> : n \in NestedItems}
      \cup {<<a, b>> : a, b \in {Word("C"), Word("u8"), Word("u16")}}

OtherAttrs ==
    {Attr("derive", "List", <<Word("Nom")>>), Attr("doc", "NameValue", <<>>),
     Attr("repr", "NameValue", <<>>), Attr("repr", "Path", <<>>)}

Attrs == OtherAttrs \cup {Repr(n) : n \in NestedLists}

AttrLists ==
    {<<>>} \cup {<<a>> : a \in Attrs}
      \cup {<<a, b>> : a \in OtherAttrs \cup {Repr(<<>>), Repr(<<Word("C")>>)}, b \in Attrs}

\* Fieldless mode: unit variants with pairwise distinct discriminants in the
\* range of the repr, under every byte-order annotation and default.
DiscriminantsOf(repr) ==
    CASE repr = "u8" -> {0, 7, 255}
      [] repr = "i8" -> {0, 7, -1}
      [] repr = "u16" -> {7, 2047, 65287}

InjectiveSeqs(S, n) ==
    {s \in SeqsUpTo(S, n) : Len(s) > 0 /\ \A a, b \in 1..Len(s) : a # b => s[a] # s[b]}

UnitVariants(ds) == [k \in 1..Len(ds) |-> Variant(k, <<>>, "Unit", <<>>, ds[k])]

FieldlessInit ==
    \E repr \in {"u8", "i8", "u16"}, endian \in EndianLists,
       hooks \in {<<>>, <<MetaAttr("PreExec", "hook()"), MetaAttr("PostExec", "hook()")>>},
       be \in BOOLEAN, input \in Inputs :
        \E ds \in InjectiveSeqs(DiscriminantsOf(repr), MaxVariants) :
            InitCase(Case(<<Repr(<<Word(repr)>>)>>, endian \o hooks, UnitVariants(ds), be, input, 0))

\* The driver: every attribute list, with and without a top-level Selector,
\* on enums of unit variants, of variants with fields, and of both.
DriverShapes ==
    {<<[kind |-> "Unit", tys |-> <<>>]>>,
     <<[kind |-> "Unit", tys |-> <<>>], [kind |-> "Unit", tys |-> <<>>]>>,
     <<[kind |-> "Unit", tys |-> <<>>], [kind |-> "Unnamed", tys |-> <<"u8">>]>>,
     <<[kind |-> "Named", tys |-> <<>>]>>,
     <<[kind |-> "Named", tys |-> <<"u8">>]>>}

DriverVariantLists ==
    {[k \in 1..Len(sh) |-> Variant(k, vmeta, sh[k].kind, sh[k].tys, k - 1)] :
       sh \in DriverShapes, vmeta \in {<<>>, <<MetaAttr("Selector", "1")>>}}

DriverInit ==
    \E attrs \in AttrLists, vs \in DriverVariantLists, be \in BOOLEAN,
       meta \in {<<>>, <<SelectorAttr>>, <<MetaAttr("BigEndian", "")>>,
                 <<MetaAttr("LittleEndian", "")>>} :
        InitCase(Case(attrs, meta, vs, be, <<7>>, 1))

(***************************************************************************)
(* The state machine.                                                      *)
(***************************************************************************)
Step(op, a) == [op |-> op, a |-> a]

Init ==
    \/ ArmInit
    \/ FieldInit
    \/ FieldlessInit
    \/ DriverInit

\* the derive macro runs on the declaration
Derive ==
    /\ pc = "decl"
    /\ tokens' = impl_nom_enums(ast, config)
    /\ pc' = IF tokens'.tag = "Panic" THEN "panicked" ELSE "derived"
    /\ UNCHANGED <<ast, config, orig_i, i, selector, ip, arm, fld, idents, result, trace>>

\* parse(orig_i[, selector]) is called
Call ==
    /\ pc = "derived"
    /\ pc' = "running"
    /\ ip' = 1
    /\ UNCHANGED <<ast, config, tokens, orig_i, i, selector, arm, fld, idents, result, trace>>

Running(op) == pc = "running" /\ ip \in 1..Len(tokens.body) /\ tokens.body[ip].op = op

\* let i = orig_i;
ExecLetInput ==
    /\ Running("let_input")
    /\ i' = orig_i
    /\ ip' = ip + 1
    /\ trace' = Append(trace, Step("let_input", ""))
    /\ UNCHANGED <<ast, config, pc, tokens, orig_i, selector, arm, fld, idents, result>>

\* a top-level hook expression
ExecHook ==
    /\ Running("exec")
    /\ ip' = ip + 1
    /\ trace' = Append(trace, Step("exec", tokens.body[ip].a))
    /\ UNCHANGED <<ast, config, pc, tokens, orig_i, i, selector, arm, fld, idents, result>>


Return(r) ==
    /\ result' = r
    /\ pc' = "returned"

\* let (i, selector) = parser(i)?;
ExecReadSelector ==
    /\ Running("read_selector")
    /\ LET r == RunParser(NumberParser(tokens.body[ip].a, tokens.body[ip].b), i)
       IN  IF r.ok
           THEN /\ i' = r.rest
                /\ selector' = r.value
                /\ ip' = ip + 1
                /\ UNCHANGED <<pc, result>>
           ELSE /\ Return(Err(r.rest, r.err))
                /\ UNCHANGED <<i, selector, ip>>
    /\ trace' = Append(trace, Step("read_selector", tokens.body[ip].b))
    /\ UNCHANGED <<ast, config, tokens, orig_i, arm, fld, idents>>

\* Name::Id as isize, the discriminant of the variant in the enum
Discriminant(a, ident) ==
    a.variants[CHOOSE k \in 1..Len(a.variants) : a.variants[k].ident = ident].discriminant

\* the variant returned with the routine's whole input instead of the rest
ExecIfEq_orig_input ==
    /\ Running("if_eq")
    /\ IF selector = CastTo(Discriminant(ast, tokens.body[ip].a), tokens.body[ip].b)
       THEN /\ Return(Ok(orig_i, tokens.body[ip].a, <<>>, FALSE))
            /\ UNCHANGED ip
       ELSE /\ ip' = ip + 1
            /\ UNCHANGED <<pc, result>>
    /\ trace' = Append(trace, Step("if_eq", tokens.body[ip].a))
    /\ UNCHANGED <<ast, config, tokens, orig_i, i, selector, arm, fld, idents>>

\* if selector == Name::Id as ty { return Ok((i, Name::Id)); }
ExecIfEq ==
    /\ Running("if_eq")
    /\ IF selector = CastTo(Discriminant(ast, tokens.body[ip].a), tokens.body[ip].b)
       THEN /\ Return(Ok(i, tokens.body[ip].a, <<>>, FALSE))
            /\ UNCHANGED ip
       ELSE /\ ip' = ip + 1
            /\ UNCHANGED <<pc, result>>
    /\ trace' = Append(trace, Step("if_eq", tokens.body[ip].a))
    /\ UNCHANGED <<ast, config, tokens, orig_i, i, selector, arm, fld, idents>>

\* Err(::nom::Err::Error((orig_i, ErrorKind::Switch)))
ExecErrSwitch ==
    /\ Running("err_switch")
    /\ Return(Err(orig_i, "Switch"))
    /\ trace' = Append(trace, Step("err_switch", ""))
    /\ UNCHANGED <<ast, config, tokens, orig_i, i, selector, ip, arm, fld, idents>>

\* the first arm of the match whose pattern matches
FirstMatch(arms, v) ==
    CHOOSE k \in 1..Len(arms) :
        /\ Matches(arms[k].m, v)
        /\ \A q \in 1..(k - 1) : ~Matches(arms[q].m, v)

\* let enum_def = match selector { arms }: the arm is chosen; the fallback arm
\* is the Switch error, which `enum_def` then returns
ExecMatch ==
    /\ Running("match")
    /\ arm = 0
    /\ LET k == FirstMatch(tokens.arms, selector)
       IN  /\ arm' = k
           /\ fld' = 1
           /\ trace' = Append(trace, Step("arm", tokens.arms[k].variantname))
           /\ IF tokens.arms[k].kind = "switch"
              THEN Return(Err(i, "Switch"))
              ELSE UNCHANGED <<pc, result>>
    /\ UNCHANGED <<ast, config, tokens, orig_i, i, selector, ip, idents>>

\* every field parser run on the routine's input, not on what the last one left
ExecField_unthreaded ==
    /\ Running("match")
    /\ arm # 0
    /\ fld \in 1..Len(tokens.arms[arm].parsers)
    /\ LET sp == tokens.arms[arm].parsers[fld]
           r == RunParser(sp.parser, orig_i)
       IN  /\ trace' = Append(trace, Step("field", sp.name))
           /\ IF r.ok
              THEN /\ i' = r.rest
                   /\ idents' = Append(idents, [name |-> sp.name, value |-> r.value])
                   /\ fld' = fld + 1
                   /\ UNCHANGED <<pc, result>>
              ELSE /\ Return(Err(r.rest, r.err))
                   /\ UNCHANGED <<i, idents, fld>>
    /\ UNCHANGED <<ast, config, tokens, orig_i, selector, ip, arm>>

\* let (i, id) = parser(i)?;   for the next field of the arm
ExecField ==
    /\ Running("match")
    /\ arm # 0
    /\ fld \in 1..Len(tokens.arms[arm].parsers)
    /\ LET sp == tokens.arms[arm].parsers[fld]
           r == RunParser(sp.parser, i)
       IN  /\ trace' = Append(trace, Step("field", sp.name))
           /\ IF r.ok
              THEN /\ i' = r.rest
                   /\ idents' = Append(idents, [name |-> sp.name, value |-> r.value])
                   /\ fld' = fld + 1
                   /\ UNCHANGED <<pc, result>>
              ELSE /\ Return(Err(r.rest, r.err))
                   /\ UNCHANGED <<i, idents, fld>>
    /\ UNCHANGED <<ast, config, tokens, orig_i, selector, ip, arm>>

\* let struct_def = Name::Variant { ids }; Ok((i, struct_def))  -- the value of
\* the match, which `enum_def` then returns
ExecBuild ==
    /\ Running("match")
    /\ arm # 0
    /\ fld = Len(tokens.arms[arm].parsers) + 1
    /\ Return(Ok(i, tokens.arms[arm].variantname, idents, tokens.arms[arm].unnamed))
    /\ trace' = Append(trace, Step("build", tokens.arms[arm].variantname))
    /\ UNCHANGED <<ast, config, tokens, orig_i, i, selector, ip, arm, fld, idents>>

Next ==
    \/ Derive
    \/ Call
    \/ ExecLetInput
    \/ ExecHook
    \/ ExecReadSelector
    \/ ExecIfEq
    \/ ExecErrSwitch
    \/ ExecMatch
    \/ ExecField
    \/ ExecBuild

Spec == Init /\ [][Next]_vars


(***************************************************************************)
(* The declaration and the emitted routine, as the properties read them.   *)
(***************************************************************************)
Derived == pc \notin {"decl", "panicked"}
SelectorMode == Derived /\ tokens.mode = "selector"
FieldlessMode == Derived /\ tokens.mode = "fieldless"

\* the declaration, read without the macro's code
DeclaredPattern(k) ==
    LET m == ast.variants[k].meta
    IN  m[CHOOSE n \in 1..Len(m) :
            /\ m[n].attr_type = "Selector"
            /\ \A q \in 1..(n - 1) : m[q].attr_type # "Selector"].arg
VariantIndexes == 1..Len(ast.variants)
Wildcards == {k \in VariantIndexes : DeclaredPattern(k) = "_"}
NonWildcards == VariantIndexes \ Wildcards
HasTopLevel(t) == \E k \in 1..Len(ast.meta) : ast.meta[k].attr_type = t

\* the emitted arms of the variants (the fallback Switch arm left out)
VariantArms == SelectSeq(tokens.arms, LAMBDA a : a.kind = "variant")
ArmNames == [k \in 1..Len(VariantArms) |-> VariantArms[k].variantname]

\* the declaration order with the wildcard variants moved behind the others,
\* both groups in declaration order
StablePartition ==
    LET IsWild(v) == \E k \in Wildcards : ast.variants[k].ident = v.ident
        NotWild(v) == ~IsWild(v)
        names(vs) == [k \in 1..Len(vs) |-> vs[k].ident]
    IN  names(SelectSeq(ast.variants, NotWild)) \o names(SelectSeq(ast.variants, IsWild))

(***************************************************************************)
(* C1.  Selector mode, exactly one variant with selector "_": whatever its *)
(* position in the declaration, its arm comes after every other variant's  *)
(* arm in the emitted match, and a selector value that matches the pattern *)
(* of another variant is never dispatched to the wildcard variant.         *)
(***************************************************************************)
C1_WildcardArmLast ==
    (SelectorMode /\ Cardinality(Wildcards) = 1) =>
        /\ \A a, b \in 1..Len(VariantArms) :
              (VariantArms[a].m = "_" /\ VariantArms[b].m # "_") => b < a
        /\ (arm # 0 /\ \E k \in NonWildcards : Matches(DeclaredPattern(k), selector))
              => tokens.arms[arm].m # "_"

\* the wildcard is declared first, and a later variant's pattern wins
C1_Witness ==
    /\ SelectorMode
    /\ Cardinality(Wildcards) = 1
    /\ Len(ast.variants) = 3
    /\ DeclaredPattern(1) = "_"
    /\ arm # 0
    /\ tokens.arms[arm].m # "_"
    /\ pc = "returned"
    /\ result.tag = "Ok"

(***************************************************************************)
(* C7.  Selector mode: the emitted arm order is the stable partition of    *)
(* the declaration order into the non-wildcard variants followed by the    *)
(* wildcard one.                                                           *)
(***************************************************************************)
C7_StablePartition ==
    (SelectorMode /\ Cardinality(Wildcards) = 1) => ArmNames = StablePartition

(***************************************************************************)
(* C8.  Selector mode, for every declaration the macro accepts, also one   *)
(* with "_" on more than one variant: a wildcard arm, if there is one, is  *)
(* the last arm, that is, no emitted arm list has a wildcard arm followed  *)
(* by a non-wildcard arm.                                                  *)
(***************************************************************************)
C8_NoArmAfterWildcard ==
    SelectorMode =>
        \A a, b \in 1..Len(VariantArms) :
            (a < b /\ VariantArms[a].m = "_") => VariantArms[b].m = "_"

(***************************************************************************)
(* C4.  Selector mode: the routine ends with the value of a variant whose  *)
(* pattern matches the selector, or with the error of one of that          *)
(* variant's field parsers, or -- exactly when no variant's pattern        *)
(* matches, which needs a declaration without wildcard -- with a Switch    *)
(* error.  The fallback Switch arm is emitted iff no variant has selector  *)
(* "_"; with a wildcard variant, a selector no other pattern matches       *)
(* yields the wildcard variant.                                            *)
(***************************************************************************)
Matching == {k \in VariantIndexes : Matches(DeclaredPattern(k), selector)}

\* C4: the general statement
C4_General ==
    SelectorMode =>
        /\ (\E a \in 1..Len(tokens.arms) : tokens.arms[a].kind = "switch") <=> (Wildcards = {})
        /\ pc = "returned" =>
              /\ result.tag \in {"Ok", "Err"}
              /\ (result.tag = "Ok") =>
                    \E k \in Matching :
                        /\ result.variant = ast.variants[k].ident
                        /\ Len(result.fields) = Len(ast.variants[k].fields)
                        /\ (Matching \subseteq Wildcards) => k \in Wildcards
              /\ (result.tag = "Err" /\ result.kind # "Switch") =>
                    /\ Matching # {}
                    /\ result.kind = "Incomplete"
                    /\ trace[Len(trace)].op = "field"
              /\ (result.tag = "Err" /\ result.kind = "Switch") <=> (Matching = {})
              /\ (Matching = {}) => (Wildcards = {} /\ result = Err(orig_i, "Switch"))

\* 1 => A(u8), 2 => B, _ => C with selector 1 and input 0x07 yields A(0x07)
C4_Witness ==
    /\ SelectorMode
    /\ Len(ast.variants) = 3
    /\ DeclaredPattern(1) = "1" /\ ast.variants[1].fields = Fields(<<"u8">>)
    /\ DeclaredPattern(2) = "2" /\ ast.variants[2].fields = <<>>
    /\ DeclaredPattern(3) = "_" /\ ast.variants[3].fields = <<>>
    /\ selector = 1
    /\ orig_i = <<7>>
    /\ pc = "returned"
    /\ result = Ok(<<>>, "A", <<[name |-> "f1", value |-> 7]>>, TRUE)

\* the same declaration with selector 9 yields C
C4_Example ==
    (/\ SelectorMode
     /\ Len(ast.variants) = 3
     /\ DeclaredPattern(1) = "1" /\ ast.variants[1].fields = Fields(<<"u8">>)
     /\ DeclaredPattern(2) = "2" /\ ast.variants[2].fields = <<>>
     /\ DeclaredPattern(3) = "_" /\ ast.variants[3].fields = <<>>
     /\ pc = "returned")
    => /\ selector = 9 => result = Ok(orig_i, "C", <<>>, FALSE)
       /\ (selector = 1 /\ orig_i = <<7>>) =>
             result = Ok(<<>>, "A", <<[name |-> "f1", value |-> 7]>>, TRUE)

\* C4: both of the above, the general statement and the spec's scenario
C4_Terminal == C4_General /\ C4_Example

(***************************************************************************)
(* C6.  Selector mode, inside the arm entered: the field parsers run in    *)
(* declaration order, the first on the routine's input and each next one   *)
(* on what the one before left; the first that fails ends the routine with *)
(* its error, no later field is parsed and no value is built; when all     *)
(* succeed the result is the variant's value and the input left after the  *)
(* last field.                                                             *)
(***************************************************************************)
EnteredFields ==
    ast.variants[CHOOSE k \in VariantIndexes :
                    ast.variants[k].ident = tokens.arms[arm].variantname].fields

RECURSIVE Offset(_, _)
Offset(fs, n) == IF n = 0 THEN 0 ELSE Offset(fs, n - 1) + ReprWidth(fs[n].ty)

\* the value of a field of type ty held by exactly its bytes
Decoded(ty, bytes) ==
    LET raw == IF config.big_endian THEN BeValue(bytes) ELSE LeValue(bytes)
    IN  IF ReprSigned(ty) THEN ToSigned(raw, ReprWidth(ty)) ELSE raw

FieldSteps == SelectSeq(trace, LAMBDA t : t.op = "field")

\* C6: the fields of the arm entered are parsed in order, each on the input left
C6_FieldsInOrder ==
    (SelectorMode /\ arm # 0 /\ tokens.arms[arm].kind = "variant") =>
        LET fs == EnteredFields
            n == Len(idents)
        IN  /\ Len(FieldSteps) <= Len(fs)
            /\ \A k \in 1..Len(FieldSteps) : FieldSteps[k].a = fs[k].name
            /\ n <= Len(fs)
            /\ \A k \in 1..n :
                  /\ idents[k].name = fs[k].name
                  /\ Offset(fs, k) <= Len(orig_i)
                  /\ idents[k].value =
                        Decoded(fs[k].ty, SubSeq(orig_i, Offset(fs, k - 1) + 1, Offset(fs, k)))
            /\ i = SubSeq(orig_i, Offset(fs, n) + 1, Len(orig_i))
            /\ pc = "running" => Len(FieldSteps) = n
            /\ (pc = "returned" /\ result.tag = "Err") =>
                  /\ Len(FieldSteps) = n + 1
                  /\ Len(i) < ReprWidth(fs[n + 1].ty)
                  /\ result = Err(<<>>, "Incomplete")
                  /\ \A t \in 1..Len(trace) : trace[t].op # "build"
            /\ (pc = "returned" /\ result.tag = "Ok") =>
                  /\ n = Len(fs)
                  /\ Len(FieldSteps) = n
                  /\ result.rest = i
                  /\ result.variant = tokens.arms[arm].variantname
                  /\ result.fields = idents
                  /\ trace[Len(trace)].op = "build"

\* the first of two fields is parsed, the second fails on the input left
C6_Witness ==
    /\ SelectorMode
    /\ arm # 0
    /\ tokens.arms[arm].kind = "variant"
    /\ Len(EnteredFields) = 2
    /\ Len(idents) = 1
    /\ Len(i) = 1
    /\ i # orig_i
    /\ pc = "returned"
    /\ result.tag = "Err"


(***************************************************************************)
(* C2.  The mode impl_nom_enums chooses: with a top-level Selector,        *)
(* selector mode; without one and with unit variants only, fieldless mode, *)
(* which aborts when no repr attribute is there; without one and with a    *)
(* variant that has fields, the "selector required" abort -- also when the *)
(* enum has a repr attribute.                                              *)
(***************************************************************************)
Synthesized == pc # "decl"
AllUnit == \A k \in VariantIndexes : ast.variants[k].fields_kind = "Unit"
SomeFields == \E k \in VariantIndexes : Len(ast.variants[k].fields) > 0
ReprAttrs == {k \in 1..Len(ast.attrs) : ast.attrs[k].path = "repr"}
SelectorRequired == Aborted("Nom-derive: enums must specify the 'selector' attribute")
ReprRequired == Aborted("Nom-derive: fieldless enums must have a 'repr' attribute")

\* C2: the mode chosen from Selector and the variants' shapes
C2_ModeChoice ==
    Synthesized =>
        /\ HasTopLevel("Selector") =>
              /\ tokens.tag = "Tokens" => tokens.mode = "selector"
              /\ tokens \notin {SelectorRequired, ReprRequired}
        /\ (~HasTopLevel("Selector") /\ AllUnit) =>
              /\ tokens.tag = "Tokens" => tokens.mode = "fieldless"
              /\ tokens # SelectorRequired
              /\ ReprAttrs = {} => tokens = ReprRequired
        /\ (~HasTopLevel("Selector") /\ ~AllUnit) => tokens = SelectorRequired
        /\ (~HasTopLevel("Selector") /\ SomeFields) => tokens = SelectorRequired

\* a variant with a field, no Selector, and a repr(u8) attribute: aborted
C2_Witness ==
    /\ pc = "panicked"
    /\ ~HasTopLevel("Selector")
    /\ SomeFields
    /\ ast.attrs = <<Repr(<<Word("u8")>>)>>
    /\ tokens = SelectorRequired

(***************************************************************************)
(* C5.  Fieldless mode needs a declared integer representation: synthesis  *)
(* succeeds for every enum whose repr attribute declares one of u8, u16,   *)
(* u24, u32, u64, i8, i16, i24, i32, i64, and aborts when no repr is       *)
(* declared or the declared repr is none of these.                         *)
(***************************************************************************)
\* the integer types the enum's repr(...) attributes declare
DeclaredIntReprs ==
    {w \in IntReprs :
        \E k \in ReprAttrs :
            /\ ast.attrs[k].kind = "List"
            /\ \E n \in 1..Len(ast.attrs[k].nested) : ast.attrs[k].nested[n] = Word(w)}

\* C5: fieldless synthesis succeeds iff the repr attribute declares an integer type
C5_IntegerReprDecides ==
    (Synthesized /\ ~HasTopLevel("Selector") /\ AllUnit) =>
        (tokens.tag = "Tokens") <=> (DeclaredIntReprs # {})


(***************************************************************************)
(* C3.  Fieldless mode, representation width W, pairwise distinct          *)
(* discriminants, an input of at least W bytes: the routine reads one      *)
(* W-byte integer, compares it with the discriminants (cast to the         *)
(* representation type) in declaration order and returns the first         *)
(* variant that is equal, with the input left after the W bytes; when no   *)
(* discriminant is equal it returns a Switch error.                        *)
(***************************************************************************)
ReadStmts == SelectSeq(tokens.body, LAMBDA st : st.op = "read_selector")
ExpectedBigEndian ==
    \/ HasTopLevel("BigEndian")
    \/ ~HasTopLevel("LittleEndian") /\ config.big_endian

\* the integer of type repr that exactly these bytes hold
IntegerRead(repr, bytes) ==
    LET raw == IF ExpectedBigEndian THEN BeValue(bytes) ELSE LeValue(bytes)
    IN  IF ReprSigned(repr) THEN ToSigned(raw, ReprWidth(repr)) ELSE raw

IfEqSteps == SelectSeq(trace, LAMBDA t : t.op = "if_eq")
DeclaredIdents(n) == [k \in 1..n |-> Step("if_eq", ast.variants[k].ident)]

\* C3: the result of the fieldless routine on an input of at least W bytes
C3_FieldlessDispatch ==
    (FieldlessMode /\ pc = "returned") =>
        /\ Len(ReadStmts) = 1
        /\ \A r \in IntReprs : ast.attrs = <<Repr(<<Word(r)>>)>> => ReadStmts[1].b = r
        /\ LET repr == ReadStmts[1].b
               w == ReprWidth(repr)
               v == IntegerRead(repr, SubSeq(orig_i, 1, w))
               equal == {k \in VariantIndexes :
                           CastTo(ast.variants[k].discriminant, repr) = v}
           IN  Len(orig_i) >= w =>
                  IF equal = {}
                  THEN /\ result.tag = "Err"
                       /\ result.kind = "Switch"
                       /\ IfEqSteps = DeclaredIdents(Len(ast.variants))
                  ELSE LET first == CHOOSE k \in equal : \A q \in equal : k <= q
                       IN  /\ result = Ok(SubSeq(orig_i, w + 1, Len(orig_i)),
                                          ast.variants[first].ident, <<>>, FALSE)
                           /\ IfEqSteps = DeclaredIdents(first)

\* a two-byte selector equal to the second discriminant, one byte left
C3_Witness ==
    /\ FieldlessMode
    /\ pc = "returned"
    /\ ReadStmts[1].b = "u16"
    /\ Len(orig_i) = 3
    /\ result.tag = "Ok"
    /\ result.variant = "B"
    /\ Len(result.rest) = 1
    /\ Len(ast.variants) = 3

(***************************************************************************)
(* C9.  Fieldless mode: a container-level BigEndian or LittleEndian        *)
(* annotation decides the byte order of the integer decoder, and           *)
(* config.big_endian decides it only when neither is there; the decoder is *)
(* be_<repr> for big-endian and le_<repr> for little-endian.               *)
(***************************************************************************)
C9_ByteOrder ==
    FieldlessMode =>
        /\ Len(ReadStmts) = 1
        /\ ReadStmts[1].b \in IntReprs
        /\ \A w \in IntReprs : ast.attrs = <<Repr(<<Word(w)>>)>> => ReadStmts[1].b = w
        /\ (HasTopLevel("BigEndian") /\ ~HasTopLevel("LittleEndian"))
              => ReadStmts[1].a = "be"
        /\ (HasTopLevel("LittleEndian") /\ ~HasTopLevel("BigEndian"))
              => ReadStmts[1].a = "le"
        /\ (~HasTopLevel("LittleEndian") /\ ~HasTopLevel("BigEndian"))
              => ReadStmts[1].a = (IF config.big_endian THEN "be" ELSE "le")

\* LittleEndian on the enum overrides a big-endian configuration
C9_Witness ==
    /\ FieldlessMode
    /\ HasTopLevel("LittleEndian")
    /\ ~HasTopLevel("BigEndian")
    /\ config.big_endian
    /\ ReadStmts[1] = Stmt("read_selector", "le", "u16")
    /\ orig_i = <<7, 255>>
    /\ selector = 65287
    /\ pc = "returned"
    /\ result.tag = "Ok"

(***************************************************************************)
(* C10.  Both modes: the top-level PreExec expression is emitted exactly   *)
(* once, right after the input variable is bound and before the selector   *)
(* is read (fieldless mode) or the match is entered (selector mode); the   *)
(* top-level PostExec expression is emitted nowhere, so nothing runs after *)
(* the last field of a matched variant.                                    *)
(***************************************************************************)
ExecStmts == SelectSeq(tokens.body, LAMBDA st : st.op = "exec")

\* C10: PreExec once after the input is bound, PostExec nowhere
C10_PreHookOnly ==
    Derived =>
        /\ tokens.body[1].op = "let_input"
        /\ HasTopLevel("PreExec") =>
              /\ ExecStmts = <<Stmt("exec", "PreExec", "")>>
              /\ tokens.body[2] = Stmt("exec", "PreExec", "")
              /\ tokens.body[3].op = (IF tokens.mode = "fieldless" THEN "read_selector"
                                      ELSE "match")
        /\ ~HasTopLevel("PreExec") => ExecStmts = <<>>
        /\ \A k \in 1..Len(trace) :
              trace[k].op = "exec" =>
                  (k = 2 /\ trace[k].a = "PreExec" /\ trace[1].op = "let_input")
        /\ (HasTopLevel("PreExec") /\ Len(trace) >= 2) => trace[2] = Step("exec", "PreExec")
        /\ (pc = "returned" /\ result.tag = "Ok") =>
              trace[Len(trace)].op = (IF tokens.mode = "fieldless" THEN "if_eq" ELSE "build")

\* PreExec and PostExec both given, a variant with fields parsed to the end
C10_Witness ==
    /\ SelectorMode
    /\ HasTopLevel("PreExec")
    /\ HasTopLevel("PostExec")
    /\ pc = "returned"
    /\ result.tag = "Ok"
    /\ Len(result.fields) = 2
    /\ trace[2] = Step("exec", "PreExec")


=============================================================================
